---- MODULE Spec2Model ----
(***************************************************************************)
(* cybele-core: the Vault / VaultItem data model, its length-prefixed      *)
(* binary codec and the versioned serialize / deserialize protocol.        *)
(*                                                                         *)
(* Byte strings (names, values, passwords, salts, keys, ciphertexts,       *)
(* blobs) are sequences of integers in 0..255.  A Rust &str / String is    *)
(* the sequence of its UTF-8 bytes.                                        *)
(***************************************************************************)
EXTENDS Integers, Sequences, FiniteSets, TLC

(***************************************************************************)
(* Bounds of the model.                                                    *)
(***************************************************************************)
\* longest item name handed to the item codec (SpecItem)
MaxNameLen == 258
\* longest string handed to hex::decode (SpecHex)
MaxHexLen == 3
\* longest message whose SHA-256 padding is followed byte by byte (SpecSha)
MaxMsgLen == 130
\* most items the modelled vault is allowed to grow to
MaxItems == 2
\* number of 32-byte salts the OS CSPRNG hands out in one behaviour
MaxRng == 3
\* number of AEAD encryptions whose history is followed (SpecKeys)
MaxUsed == 3
\* how far past the 16-bit range the item count is followed (SpecLen)
MaxOver == 120

(***************************************************************************)
(* Program constants.                                                      *)
(***************************************************************************)
SaltLen == 32
TagLen == 16
\* bytes in a SHA-256 block and in a SHA-256 digest
BlockLen == 64
DigestLen == 32
U16Max == 65535

Byte == 0..255

(***************************************************************************)
(* Inputs.                                                                 *)
(***************************************************************************)
\* item names handed to remove / get: "", "a", "b"
Names == {<< >>, <<97>>, <<98>>}
\* secret values: "x", "y"
Values == {<<120>>, <<121>>}
\* item passwords and file passwords: "p", "q"
Passwords == {<<112>>, <<113>>}
\* the (name, value, password) triples handed to add
AddInputs ==
    { <<<<97>>, <<120>>, <<112>>>>,      \* ("a", "x", "p")
      <<<<97>>, <<121>>, <<113>>>>,      \* ("a", "y", "q")
      <<<< >>, <<120>>, <<112>>>> }      \* ("",  "x", "p")
\* the salt a test injects into Vault::create: [42u8; 32]
InjectedSalt == [i \in 1..SaltLen |-> 42]
\* the n-th salt drawn from the OS CSPRNG (fresh on every draw)
CsprngSalt(n) == [i \in 1..SaltLen |-> n]

(***************************************************************************)
(* Big-endian 16-bit length prefixes.                                      *)
(***************************************************************************)
\* [(len >> 8) as u8, len as u8]
U16Bytes(len) == <<(len \div 256) % 256, len % 256>>

\* ((b0 as u16) << 8) | b1 as u16
U16Decode(b0, b1) == b0 * 256 + b1

(***************************************************************************)
(* Version.                                                                *)
(***************************************************************************)
Versions == {"Test", "V1"}

to_byte(version) == IF version = "Test" THEN 0 ELSE 1

\* "none" stands for Option::None
from_byte(b) == IF b = 0 THEN "Test" ELSE IF b = 1 THEN "V1" ELSE "none"

(***************************************************************************)
(* Purpose.                                                                *)
(***************************************************************************)
\* b"file" and b"password"
Purpose_encode(purpose) ==
    IF purpose = "File" THEN <<102, 105, 108, 101>>
    ELSE <<112, 97, 115, 115, 119, 111, 114, 100>>

(***************************************************************************)
(* The cryptographic primitives are library code (argon2, SHA-256 inside   *)
(* HMAC, chacha20poly1305).  They are modelled by small keyed functions    *)
(* with the same shape: a deterministic derivation that reads every input, *)
(* a length-preserving invertible stream cipher, and a 16-byte tag over    *)
(* the key and the ciphertext body.  A 256-bit key is carried as the pair  *)
(* of digest words it is made of; keys are never written to a blob.        *)
(***************************************************************************)
Mod1 == 2^24 - 3
Mod2 == 2^24 - 227

Step(h, b) == <<(h[1] * 31 + b + 1) % Mod1, (h[2] * 37 + b + 7) % Mod2>>

Step4(h, s, i) == Step(Step(Step(Step(h, s[i]), s[i + 1]), s[i + 2]), s[i + 3])

\* two running digest words over s[i..], continued from h
RECURSIVE Digest(_, _, _)
Digest(s, i, h) ==
    IF i > Len(s) THEN h
    ELSE IF i + 7 <= Len(s)
         THEN LET next == Step4(Step4(h, s, i), s, i + 4)
              IN  IF next[1] < 0 THEN next ELSE Digest(s, i + 8, next)
         ELSE LET next == Step(h, s[i])
              IN  IF next[1] < 0 THEN next ELSE Digest(s, i + 1, next)

\* Argon2id parameters (memory KiB, time cost, parallelism, output length)
ArgonParams(version) ==
    IF version = "Test" THEN <<512, 1, 1, 32>> ELSE <<32768, 64, 4, 32>>

\* Argon2id(params, password, salt): the master key
Argon2(params, password, salt) ==
    Digest(<<params[1] % 256, params[1] \div 256, params[2], params[3], params[4],
             Len(password)>> \o password \o salt, 1, <<1, 2>>)

\* hmac256::authenticate(key, message)
authenticate(key, message) == Digest(message, 1, Step(key, Len(message)))

\* Option<T>
None == [ok |-> FALSE, v |-> << >>]
Some(x) == [ok |-> TRUE, v |-> x]

\* a derive_key that skips the key-separation step
derive_key_unbound(version, password, salt, purpose, argon_ok) ==
    IF ~argon_ok THEN None
    ELSE Some(authenticate(Argon2(ArgonParams(version), password, salt), << >>))

\* derive_key: None on an Argon2 error (argon_ok = FALSE), else the key
derive_key(version, password, salt, purpose, argon_ok) ==
    IF ~argon_ok THEN None
    ELSE Some(authenticate(Argon2(ArgonParams(version), password, salt), Purpose_encode(purpose)))

\* the keystream byte at position i
KeyStream(key, i) == (key[1] + (key[2] % 251) * i) % 256

\* the 16-byte authentication tag over the ciphertext body; its first six
\* bytes carry the digest words exactly
Tag(key, body) ==
    LET h == Digest(body, 1, Step(key, Len(body) % 256)) IN
    <<h[1] % 256, (h[1] \div 256) % 256, (h[1] \div 65536) % 256,
      h[2] % 256, (h[2] \div 256) % 256, (h[2] \div 65536) % 256>>
    \o [j \in 1..(TagLen - 6) |-> (h[1] + (h[2] % 4096) * j + j) % 256]

\* cipher::encrypt: ciphertext || tag (cannot fail on an in-memory plaintext)
cipher_encrypt(key, plaintext) ==
    LET body == [i \in 1..Len(plaintext) |-> (plaintext[i] + KeyStream(key, i)) % 256]
    IN  Some(body \o Tag(key, body))

\* cipher::decrypt that strips the tag without verifying it
cipher_decrypt_unauthenticated(key, ciphertext) ==
    IF Len(ciphertext) < TagLen THEN None
    ELSE LET n == Len(ciphertext) - TagLen
         IN  Some([i \in 1..n |-> (ciphertext[i] + 256 - KeyStream(key, i)) % 256])

\* cipher::decrypt: None on an authentication error, else the plaintext
cipher_decrypt(key, ciphertext) ==
    IF Len(ciphertext) < TagLen THEN None
    ELSE LET n == Len(ciphertext) - TagLen
             body == SubSeq(ciphertext, 1, n)
             tag == SubSeq(ciphertext, n + 1, Len(ciphertext))
         IN  IF tag # Tag(key, body) THEN None
             ELSE Some([i \in 1..n |-> (body[i] + 256 - KeyStream(key, i)) % 256])

(***************************************************************************)
(* String::from_utf8: is the byte string well-formed UTF-8 from index i?   *)
(***************************************************************************)
IsCont(b) == b >= 128 /\ b <= 191

\* a conversion that takes the bytes for a string without looking at them
from_utf8_unchecked(s, i) == TRUE

RECURSIVE from_utf8_ok(_, _)
from_utf8_ok(s, i) ==
    IF \A k \in i..Len(s) : s[k] < 128 THEN TRUE
    ELSE \* ASCII bytes are skipped up to the first byte that opens a sequence
         LET j == CHOOSE k \in i..Len(s) : s[k] >= 128 /\ \A m \in i..(k - 1) : s[m] < 128
             b == s[j]
         IN
         IF b >= 194 /\ b <= 223
              THEN j + 1 <= Len(s) /\ IsCont(s[j + 1]) /\ from_utf8_ok(s, j + 2)
         ELSE IF b >= 224 /\ b <= 239
              THEN /\ j + 2 <= Len(s)
                   /\ IsCont(s[j + 1]) /\ IsCont(s[j + 2])
                   /\ (b = 224 => s[j + 1] >= 160)
                   /\ (b = 237 => s[j + 1] <= 159)
                   /\ from_utf8_ok(s, j + 3)
         ELSE IF b >= 240 /\ b <= 244
              THEN /\ j + 3 <= Len(s)
                   /\ IsCont(s[j + 1]) /\ IsCont(s[j + 2]) /\ IsCont(s[j + 3])
                   /\ (b = 240 => s[j + 1] >= 144)
                   /\ (b = 244 => s[j + 1] <= 143)
                   /\ from_utf8_ok(s, j + 4)
         ELSE FALSE

(***************************************************************************)
(* std::io::Read::read_exact on a reader over buf with pos bytes consumed. *)
(***************************************************************************)
read_exact_ok(buf, pos, n) == pos + n <= Len(buf)

read_exact(buf, pos, n) == SubSeq(buf, pos + 1, pos + n)

(***************************************************************************)
(* VaultItem { version, name, salt, encrypted_value }                      *)
(***************************************************************************)
NoItem == [version |-> "none", name |-> << >>, salt |-> << >>, encrypted_value |-> << >>]

\* VaultItem::encrypt with the salt the CSPRNG returned
VaultItem_encrypt(version, name, value, password, salt, argon_ok) ==
    LET encryption_key == derive_key(version, password, salt, "Password", argon_ok)
    IN  IF ~encryption_key.ok THEN [ok |-> FALSE, v |-> NoItem]
        ELSE LET encrypted_value == cipher_encrypt(encryption_key.v, value)
             IN  IF ~encrypted_value.ok THEN [ok |-> FALSE, v |-> NoItem]
                 ELSE [ok |-> TRUE,
                       v |-> [version |-> version, name |-> name, salt |-> salt,
                              encrypted_value |-> encrypted_value.v]]

\* VaultItem::decrypt
VaultItem_decrypt(item, password, argon_ok) ==
    LET encryption_key == derive_key(item.version, password, item.salt, "Password", argon_ok)
    IN  IF ~encryption_key.ok THEN None
        ELSE cipher_decrypt(encryption_key.v, item.encrypted_value)

\* VaultItem::size
size(item) == 2 + Len(item.name) + 32 + 1 + Len(item.encrypted_value)

\* a serialize_into that writes the length of the encrypted value as one byte
serialize_into_short_len(item) ==
    U16Bytes(Len(item.name)) \o item.name \o item.salt
        \o <<Len(item.encrypted_value) % 256>> \o item.encrypted_value

\* VaultItem::serialize_into: the bytes appended to the writer
serialize_into(item) ==
    U16Bytes(Len(item.name)) \o item.name \o item.salt
        \o U16Bytes(Len(item.encrypted_value)) \o item.encrypted_value

\* VaultItem::deserialize_from on a reader over buf with pos bytes consumed
deserialize_from(version, buf, pos) ==
    LET fail == [ok |-> FALSE, item |-> NoItem, pos |-> pos] IN
    IF ~read_exact_ok(buf, pos, 2) THEN fail
    ELSE
    LET name_len_bytes == read_exact(buf, pos, 2)
        name_len == U16Decode(name_len_bytes[1], name_len_bytes[2])
        p1 == pos + 2
    IN
    IF ~read_exact_ok(buf, p1, name_len) THEN fail
    ELSE
    LET name == read_exact(buf, p1, name_len)
        p2 == p1 + name_len
    IN
    IF ~read_exact_ok(buf, p2, SaltLen) THEN fail
    ELSE
    LET salt == read_exact(buf, p2, SaltLen)
        p3 == p2 + SaltLen
    IN
    IF ~read_exact_ok(buf, p3, 2) THEN fail
    ELSE
    LET encrypted_value_len_bytes == read_exact(buf, p3, 2)
        encrypted_value_len == U16Decode(encrypted_value_len_bytes[1],
                                         encrypted_value_len_bytes[2])
        p4 == p3 + 2
    IN
    IF ~read_exact_ok(buf, p4, encrypted_value_len) THEN fail
    ELSE
    LET encrypted_value == read_exact(buf, p4, encrypted_value_len)
        p5 == p4 + encrypted_value_len
    IN
    IF ~from_utf8_ok(name, 1) THEN fail
    ELSE IF name_len = 0 \/ encrypted_value_len = 0 THEN fail
    ELSE [ok |-> TRUE,
          item |-> [version |-> version, name |-> name, salt |-> salt,
                    encrypted_value |-> encrypted_value],
          pos |-> p5]

(***************************************************************************)
(* Vault { version, salt, items }                                          *)
(***************************************************************************)
NoVault == [version |-> "none", salt |-> << >>, items |-> << >>]

\* a create that leaves the salt buffer at its initial zeroes
create_zero_salt(salt) == [version |-> "V1", salt |-> [i \in 1..SaltLen |-> 0], items |-> << >>]

\* Vault::create with the salt given by the caller or drawn from the CSPRNG
create(salt) == [version |-> "V1", salt |-> salt, items |-> << >>]

\* a retain that drops the first match only
retain_first_removed(items, name) ==
    IF \E k \in 1..Len(items) : items[k].name = name
    THEN LET k == CHOOSE k \in 1..Len(items) :
                     /\ items[k].name = name
                     /\ \A j \in 1..(k - 1) : items[j].name # name
         IN  SubSeq(items, 1, k - 1) \o SubSeq(items, k + 1, Len(items))
    ELSE items

\* self.items.retain(|i| i.name != name)
retain(items, name) == SelectSeq(items, LAMBDA i : i.name # name)

\* a find that returns the last match
find_last(items, name) ==
    IF \E k \in 1..Len(items) : items[k].name = name
    THEN CHOOSE k \in 1..Len(items) :
            /\ items[k].name = name
            /\ \A j \in (k + 1)..Len(items) : items[j].name # name
    ELSE 0

\* self.items.iter().find(|i| i.name == name): index of the first match, 0 if none
find(items, name) ==
    IF \E k \in 1..Len(items) : items[k].name = name
    THEN CHOOSE k \in 1..Len(items) :
            /\ items[k].name = name
            /\ \A j \in 1..(k - 1) : items[j].name # name
    ELSE 0

\* Vault::get
get(v, name, password, argon_ok) ==
    LET k == find(v.items, name) IN
    IF k = 0 THEN None
    ELSE LET d == VaultItem_decrypt(v.items[k], password, argon_ok)
         IN  IF ~d.ok THEN None
             ELSE IF ~from_utf8_ok(d.v, 1) THEN None
             ELSE Some(d.v)

\* Vault::list
list(v) == [k \in 1..Len(v.items) |-> v.items[k].name]

\* the plaintext buffer items_writer: [u16 count][item_1]...[item_N]
RECURSIVE write_items(_, _)
write_items(items, k) ==
    IF k > Len(items) THEN << >>
    ELSE serialize_into(items[k]) \o write_items(items, k + 1)

items_writer(v) == U16Bytes(Len(v.items)) \o write_items(v.items, 1)

\* a serialize that writes the item count in clear, ahead of the envelope
serialize_count_outside(v, password, argon_ok) ==
    LET encryption_key == derive_key(v.version, password, v.salt, "File", argon_ok)
    IN  IF ~encryption_key.ok THEN None
        ELSE LET encrypted_items == cipher_encrypt(encryption_key.v, write_items(v.items, 1))
             IN  IF ~encrypted_items.ok THEN None
                 ELSE Some(<<to_byte(v.version)>> \o v.salt \o U16Bytes(Len(v.items))
                              \o encrypted_items.v)

\* Vault::serialize
serialize(v, password, argon_ok) ==
    LET encryption_key == derive_key(v.version, password, v.salt, "File", argon_ok)
    IN  IF ~encryption_key.ok THEN None
        ELSE LET encrypted_items == cipher_encrypt(encryption_key.v, items_writer(v))
             IN  IF ~encrypted_items.ok THEN None
                 ELSE Some(<<to_byte(v.version)>> \o v.salt \o encrypted_items.v)

\* (0..items_len).for_each(|_| { deserialize_from(..).unwrap(); push }):
\* n items still to read from buf at pos; panic is set when unwrap hits None
RECURSIVE read_items(_, _, _, _, _)
read_items(version, buf, pos, n, items) ==
    IF n = 0 THEN [panic |-> FALSE, items |-> items, pos |-> pos]
    ELSE LET r == deserialize_from(version, buf, pos)
         IN  IF ~r.ok THEN [panic |-> TRUE, items |-> items, pos |-> pos]
             ELSE read_items(version, buf, r.pos, n - 1, Append(items, r.item))

\* the decrypted payload Vault::deserialize works on (None before that point)
decrypted_items(bin, password, argon_ok) ==
    IF ~read_exact_ok(bin, 0, 1) THEN None
    ELSE IF from_byte(bin[1]) = "none" THEN None
    ELSE IF ~read_exact_ok(bin, 1, SaltLen) THEN None
    ELSE LET version == from_byte(bin[1])
             salt == read_exact(bin, 1, SaltLen)
             encrypted_items == read_exact(bin, 1 + SaltLen, Len(bin) - 32 - 1)
             encryption_key == derive_key(version, password, salt, "File", argon_ok)
         IN  IF ~encryption_key.ok THEN None
             ELSE cipher_decrypt(encryption_key.v, encrypted_items)

\* Vault::deserialize: res is "Some", "None" or "panic" (the thread unwinds);
\* payload is the decrypted buffer and pos the number of its bytes consumed
deserialize(bin, password, argon_ok) ==
    LET d == decrypted_items(bin, password, argon_ok) IN
    IF ~d.ok THEN [res |-> "None", vault |-> NoVault, payload |-> << >>, pos |-> 0]
    ELSE IF ~read_exact_ok(d.v, 0, 2)
         THEN [res |-> "None", vault |-> NoVault, payload |-> d.v, pos |-> 0]
    ELSE LET items_len_bytes == read_exact(d.v, 0, 2)
             items_len == U16Decode(items_len_bytes[1], items_len_bytes[2])
             r == read_items(from_byte(bin[1]), d.v, 2, items_len, << >>)
         IN  IF r.panic THEN [res |-> "panic", vault |-> NoVault, payload |-> d.v, pos |-> r.pos]
             ELSE [res |-> "Some",
                   vault |-> [version |-> from_byte(bin[1]),
                              salt |-> read_exact(bin, 1, SaltLen),
                              items |-> r.items],
                   payload |-> d.v,
                   pos |-> r.pos]

(***************************************************************************)
(* Blobs handed to Vault::deserialize that this library did not write: a   *)
(* holder of the file password "p" encrypts a payload of their choice.     *)
(***************************************************************************)
ForgePassword == <<112>>

forge(version_byte, payload) ==
    LET version == IF version_byte = 1 THEN "V1" ELSE "Test"
        key == derive_key(version, ForgePassword, InjectedSalt, "File", TRUE).v
    IN  <<version_byte>> \o InjectedSalt \o cipher_encrypt(key, payload).v

\* an item whose value is encrypted under item password "p"
crafted_item(name, value) ==
    LET key == derive_key("Test", ForgePassword, InjectedSalt, "Password", TRUE).v
    IN  [version |-> "Test", name |-> name, salt |-> InjectedSalt,
         encrypted_value |-> cipher_encrypt(key, value).v]

CraftedPayloads ==
    { <<0, 0, 42>>,                                               \* no items, one byte left over
      <<0>>,                                                      \* count cut short
      <<0, 1>>,                                                   \* one item announced, none there
      <<0, 1>> \o serialize_into(crafted_item(<< >>, <<120>>)),   \* zero-length name
      <<0, 1>> \o serialize_into(crafted_item(<<255>>, <<120>>)), \* name is not UTF-8
      <<0, 1>> \o serialize_into([crafted_item(<<98>>, <<120>>)
                                    EXCEPT !.encrypted_value = << >>]), \* zero-length ciphertext
      <<0, 1>> \o serialize_into(crafted_item(<<98>>, <<255>>)),  \* value is not UTF-8
      <<0, 1>> \o serialize_into(crafted_item(<<98>>, <<121>>)) \o <<0>> } \* item, then a byte

CraftedBlobs ==
    { forge(0, payload) : payload \in CraftedPayloads } \cup { forge(2, <<0, 0>>) }

\* b with the byte at index k replaced by another value
alter(b, k, delta) == [b EXCEPT ![k] = (@ + delta) % 256]

(***************************************************************************)
(* State.                                                                  *)
(***************************************************************************)
VARIABLES
    vault,   \* the Vault value the caller holds
    rng,     \* number of salts drawn from the OS CSPRNG so far
    last,    \* the last call: operation, arguments and what it returned
    used,    \* history: the (key, plaintext) pairs handed to cipher::encrypt
    cnt      \* items.len() of a vault that is followed by its length alone

vars == <<vault, rng, last, used, cnt>>

\* out is the value returned: the plaintext of get, the names of list, the
\* blob of serialize; for deserialize, out is the decrypted payload, pos the
\* number of its bytes consumed and bin the kind of input
Call(op, name, password, res, out, bin, pos) ==
    [op |-> op, name |-> name, password |-> password, res |-> res, out |-> out,
     bin |-> bin, pos |-> pos]

Init ==
    /\ \E injected \in BOOLEAN :
          /\ vault = create(IF injected THEN InjectedSalt ELSE CsprngSalt(1))
          /\ rng = IF injected THEN 0 ELSE 1
    /\ last = Call("create", << >>, << >>, "Some", << >>, "", 0)
    /\ used = {}
    /\ cnt = 0

(***************************************************************************)
(* Operations.                                                             *)
(***************************************************************************)
\* vault.version = v: the field is public
SetVersion(v) ==
    /\ v # vault.version
    /\ vault' = [vault EXCEPT !.version = v]
    /\ last' = Call("set_version", << >>, << >>, "unit", << >>, "", 0)
    /\ UNCHANGED <<rng, used, cnt>>

\* an add that encrypts every item under the production version
add_fixed_version(v, name, value, password, salt, argon_ok) ==
    LET item == VaultItem_encrypt("V1", name, value, password, salt, argon_ok)
    IN  [ok |-> item.ok,
         vault |-> IF item.ok THEN [v EXCEPT !.items = Append(@, item.v)] ELSE v]

\* an add that replaces the items already stored under the name
add_replacing(v, name, value, password, salt, argon_ok) ==
    LET item == VaultItem_encrypt(v.version, name, value, password, salt, argon_ok)
    IN  [ok |-> item.ok,
         vault |-> IF item.ok
                   THEN [v EXCEPT !.items = Append(SelectSeq(@, LAMBDA i : i.name # name), item.v)]
                   ELSE v]

\* Vault::add with the salt VaultItem::encrypt drew
add(v, name, value, password, salt, argon_ok) ==
    LET item == VaultItem_encrypt(v.version, name, value, password, salt, argon_ok)
    IN  [ok |-> item.ok,
         vault |-> IF item.ok THEN [v EXCEPT !.items = Append(@, item.v)] ELSE v]

AddCall(name, value, password, argon_ok) ==
    /\ Len(vault.items) < MaxItems
    /\ rng < MaxRng
    /\ LET r == add(vault, name, value, password, CsprngSalt(rng + 1), argon_ok)
       IN  /\ vault' = r.vault
           /\ last' = Call("add", name, << >>, IF r.ok THEN "Some" ELSE "None", << >>, "", 0)
    /\ rng' = rng + 1
    /\ UNCHANGED cnt

Add(name, value, password, argon_ok) ==
    AddCall(name, value, password, argon_ok) /\ UNCHANGED used

\* Vault::remove
remove(v, name) == [v EXCEPT !.items = retain(@, name)]

Remove(name) ==
    /\ vault' = remove(vault, name)
    /\ last' = Call("remove", name, << >>, "unit", << >>, "", 0)
    /\ UNCHANGED <<rng, used, cnt>>

\* Vault::get
Get(name, password, argon_ok) ==
    /\ LET r == get(vault, name, password, argon_ok)
       IN  last' = Call("get", name, password, IF r.ok THEN "Some" ELSE "None", r.v, "", 0)
    /\ UNCHANGED <<vault, rng, used, cnt>>

\* Vault::list
List ==
    /\ last' = Call("list", << >>, << >>, "Some", list(vault), "", 0)
    /\ UNCHANGED <<vault, rng, used, cnt>>

\* Vault::serialize
SerializeCall(password, argon_ok) ==
    /\ LET r == serialize(vault, password, argon_ok)
       IN  last' = Call("serialize", << >>, password, IF r.ok THEN "Some" ELSE "None",
                        r.v, "", 0)
    /\ UNCHANGED <<vault, rng, cnt>>

Serialize(password, argon_ok) == SerializeCall(password, argon_ok) /\ UNCHANGED used

\* The inputs tried on Vault::deserialize: blobs written elsewhere
\* ("crafted") and, when serialize has just returned a blob, that blob under
\* its password ("blob"), and ("damaged") the blob under the other password,
\* with a failing Argon2, cut short, with a tag byte altered, with a byte
\* appended.
Bin(kind, bytes, password, argon_ok) ==
    [kind |-> kind, bytes |-> bytes, password |-> password, argon_ok |-> argon_ok]

\* an input together with what Vault::deserialize returns for it
Outcome(bin) == [bin |-> bin, r |-> deserialize(bin.bytes, bin.password, bin.argon_ok)]

CraftedOutcomes ==
    { Outcome(Bin("crafted", b, ForgePassword, TRUE)) : b \in CraftedBlobs }

BlobBins ==
    IF last.op = "serialize" /\ last.res = "Some"
    THEN LET b == last.out
             pw == last.password
         IN  { Bin(IF p = pw THEN "blob" ELSE "damaged", b, p, TRUE) : p \in Passwords }
             \cup
             { Bin("damaged", b, pw, FALSE),
               Bin("damaged", SubSeq(b, 1, 16), pw, TRUE),
               Bin("damaged", SubSeq(b, 1, 33), pw, TRUE),
               Bin("damaged", SubSeq(b, 1, Len(b) - 4), pw, TRUE),
               Bin("damaged", alter(b, Len(b), 1), pw, TRUE),
               Bin("damaged", b \o <<42>>, pw, TRUE) }
    ELSE {}

\* Vault::deserialize; on Some the caller holds the vault it returned, and
\* last.out is the decrypted payload, last.pos the number of bytes consumed
Deserialize(o) ==
    /\ last' = Call("deserialize", << >>, << >>, o.r.res,
                    IF o.r.res = "Some" THEN o.r.payload ELSE << >>, o.bin.kind,
                    IF o.r.res = "Some" THEN o.r.pos ELSE 0)
    /\ vault' = IF o.r.res = "Some" THEN o.r.vault ELSE vault
    /\ UNCHANGED <<rng, used, cnt>>

\* the (name, password, argon_ok) triples handed to get
GetInputs ==
    { <<name, password, TRUE>> : name \in Names, password \in Passwords }
        \cup { <<<<97>>, <<112>>, FALSE>> }

\* the (password, argon_ok) pairs handed to serialize
SerializeInputs == { <<password, TRUE>> : password \in Passwords } \cup { <<<<112>>, FALSE>> }

Next ==
    \/ \E v \in Versions : SetVersion(v)
    \/ \E in \in AddInputs, argon_ok \in BOOLEAN : Add(in[1], in[2], in[3], argon_ok)
    \/ \E name \in Names : Remove(name)
    \/ \E in \in GetInputs : Get(in[1], in[2], in[3])
    \/ List
    \/ \E in \in SerializeInputs : Serialize(in[1], in[2])
    \/ \E o \in CraftedOutcomes \cup { Outcome(b) : b \in BlobBins } : Deserialize(o)

Spec == Init /\ [][Next]_vars

\* the vault driven through the methods of Vault alone, its public version
\* field never written by the caller
NextApi ==
    \/ \E in \in AddInputs, argon_ok \in BOOLEAN : Add(in[1], in[2], in[3], argon_ok)
    \/ \E name \in Names : Remove(name)
    \/ \E in \in GetInputs : Get(in[1], in[2], in[3])
    \/ List
    \/ \E in \in SerializeInputs : Serialize(in[1], in[2])
    \/ \E o \in CraftedOutcomes \cup { Outcome(b) : b \in BlobBins } : Deserialize(o)

SpecApi == Init /\ [][NextApi]_vars

(***************************************************************************)
(* The same calls with the AEAD encryptions they perform written to the    *)
(* history variable used: each entry names the key by what it was derived  *)
(* from, and the plaintext encrypted under it.                             *)
(***************************************************************************)
Encryption(version, password, salt, purpose, plaintext) ==
    [version |-> version, password |-> password, salt |-> salt, purpose |-> purpose,
     plaintext |-> plaintext]

\* Vault::add: VaultItem::encrypt encrypts the value once the key is derived
AuditedAdd(name, value, password, argon_ok) ==
    /\ Cardinality(used) < MaxUsed
    /\ AddCall(name, value, password, argon_ok)
    /\ used' = IF argon_ok
               THEN used \cup {Encryption(vault.version, password, CsprngSalt(rng + 1),
                                          "Password", value)}
               ELSE used

\* Vault::serialize encrypts items_writer once the key is derived
AuditedSerialize(password, argon_ok) ==
    /\ Cardinality(used) < MaxUsed
    /\ SerializeCall(password, argon_ok)
    /\ used' = IF argon_ok
               THEN used \cup {Encryption(vault.version, password, vault.salt, "File",
                                          items_writer(vault))}
               ELSE used

\* the top-level encrypt of lib.rs with the salt it drew
encrypt(version, password, plaintext, purpose, salt, argon_ok) ==
    LET encryption_key == derive_key(version, password, salt, purpose, argon_ok)
    IN  IF ~encryption_key.ok THEN None
        ELSE LET ciphertext == cipher_encrypt(encryption_key.v, plaintext)
             IN  IF ~ciphertext.ok THEN None
                 ELSE Some([salt |-> salt, ciphertext |-> ciphertext.v])

AuditedEncrypt(version, password, plaintext, purpose, argon_ok) ==
    /\ Cardinality(used) < MaxUsed
    /\ rng < MaxRng
    /\ LET salt == CsprngSalt(rng + 1)
           r == encrypt(version, password, plaintext, purpose, salt, argon_ok)
       IN  /\ last' = Call("encrypt", << >>, password, IF r.ok THEN "Some" ELSE "None",
                           IF r.ok THEN r.v.ciphertext ELSE << >>, "", 0)
           /\ used' = IF argon_ok
                      THEN used \cup {Encryption(version, password, salt, purpose, plaintext)}
                      ELSE used
    /\ rng' = rng + 1
    /\ UNCHANGED <<vault, cnt>>

NextKeys ==
    \/ \E in \in AddInputs, argon_ok \in BOOLEAN : AuditedAdd(in[1], in[2], in[3], argon_ok)
    \/ \E name \in Names : Remove(name)
    \/ \E in \in SerializeInputs : AuditedSerialize(in[1], in[2])
    \/ \E version \in Versions, purpose \in {"File", "Password"}, argon_ok \in BOOLEAN :
          AuditedEncrypt(version, <<112>>, <<120>>, purpose, argon_ok)

SpecKeys == Init /\ [][NextKeys]_vars

(***************************************************************************)
(* The vault followed by the length of its item list alone.  Vault::add    *)
(* pushes one item whatever the length; Vault::remove drops the k items    *)
(* that carry the name; Vault::serialize writes the length as two bytes    *)
(* and Vault::deserialize reads back that many items.  A vault of 65535   *)
(* items is what 65535 calls of add build and the longest list a blob      *)
(* announces.                                                              *)
(***************************************************************************)
InitLen ==
    /\ vault = create(InjectedSalt)
    /\ rng = 0
    /\ last = Call("create", << >>, << >>, "Some", << >>, "", 0)
    /\ used = {}
    /\ cnt = 0

LenAdd ==
    /\ cnt < U16Max + MaxOver
    /\ cnt' = cnt + 1
    /\ UNCHANGED <<vault, rng, last, used>>

LenRemove(k) ==
    /\ k <= cnt
    /\ cnt' = cnt - k
    /\ UNCHANGED <<vault, rng, last, used>>

\* serialize, then deserialize of the blob: the count read back
LenReload ==
    /\ cnt' = U16Decode(U16Bytes(cnt)[1], U16Bytes(cnt)[2])
    /\ UNCHANGED <<vault, rng, last, used>>

NextLen == LenAdd \/ (\E k \in 1..2 : LenRemove(k)) \/ LenReload

SpecLen == InitLen /\ [][NextLen]_vars

(***************************************************************************)
(* The item codec on its own: VaultItem::serialize and                     *)
(* VaultItem::deserialize_from applied to items and to byte strings.  The  *)
(* variable last holds the item, then the call made on it and what it      *)
(* returned.                                                               *)
(***************************************************************************)
\* the salt of the crate's item tests: 0, 1, .., 9, 0, 1, ..
TestSalt == [i \in 1..SaltLen |-> (i - 1) % 10]

\* names: "a", "ab", "é", and runs of 'a' that need one and two length bytes
CodecNames ==
    { <<97>>, <<97, 98>>, <<195, 169>> }
        \cup { [i \in 1..n |-> 97] : n \in {255, 256, MaxNameLen} }

\* encrypted values: arbitrary bytes, the shortest a cipher::encrypt output
\* can be (the tag alone) and longer
CodecValues ==
    { [i \in 1..n |-> (n + 37 * i) % 256] : n \in {1, 4, TagLen, TagLen + 1} }

CodecItems ==
    { [version |-> version, name |-> name, salt |-> salt, encrypted_value |-> ev] :
        version \in Versions, name \in CodecNames,
        salt \in {InjectedSalt, TestSalt}, ev \in CodecValues }

\* byte strings that are not the UTF-8 encoding of any string
BadNames == { <<255>>, <<195>>, <<192, 128>>, <<97, 237, 160, 128>> }

\* VaultItem::serialize
VaultItem_serialize(item) == serialize_into(item)

\* VaultItem::deserialize
VaultItem_deserialize(version, bin) == deserialize_from(version, bin, 0)

ItemCall(op, item, kind, start, buf, sz, r) ==
    [op |-> op, item |-> item, kind |-> kind, start |-> start, buf |-> buf, size |-> sz,
     r |-> r]

NoDecode == [ok |-> FALSE, item |-> NoItem, pos |-> 0]

InitItem ==
    /\ vault = NoVault
    /\ rng = 0
    /\ used = {}
    /\ cnt = 0
    /\ \E item \in CodecItems : last = ItemCall("item", item, "", 0, << >>, 0, NoDecode)

\* item.serialize() together with item.size()
ItemSerialize ==
    /\ last.op = "item"
    /\ last' = ItemCall("serialize", last.item, "", 0, VaultItem_serialize(last.item),
                        size(last.item), NoDecode)
    /\ UNCHANGED <<vault, rng, used, cnt>>

\* the byte strings handed to the decoder for an item whose encoding is b:
\* b itself, b followed by other bytes, b cut short at every length, and the
\* encodings of the item with an empty name, an empty encrypted value or a
\* name that is not UTF-8
DecoderInputs(item, b) ==
    { <<"exact", b>>, <<"trailing", b \o <<0, 1>>>>, <<"trailing", b \o b>>,
      <<"zero_name", serialize_into([item EXCEPT !.name = << >>])>>,
      <<"zero_value", serialize_into([item EXCEPT !.encrypted_value = << >>])>> }
        \cup { <<"cut", SubSeq(b, 1, n)>> : n \in 0..(Len(b) - 1) }
        \cup { <<"bad_utf8", serialize_into([item EXCEPT !.name = bad])>> : bad \in BadNames }

\* VaultItem::deserialize_from on a reader that has consumed start bytes
ItemDeserialize(kind, bytes, start) ==
    /\ last.op = "serialize"
    /\ LET buf == [i \in 1..start |-> 0] \o bytes
       IN  last' = ItemCall("deserialize", last.item, kind, start, buf, last.size,
                            deserialize_from(last.item.version, buf, start))
    /\ UNCHANGED <<vault, rng, used, cnt>>

NextItem ==
    \/ ItemSerialize
    \/ \E in \in DecoderInputs(last.item, last.buf), start \in {0, 2} :
          ItemDeserialize(in[1], in[2], start)

SpecItem == InitItem /\ [][NextItem]_vars

(***************************************************************************)
(* The top-level encrypt and decrypt of lib.rs on their own.  The variable *)
(* last holds the arguments of encrypt and the salt it draws, then the     *)
(* SaltedCiphertext, then the arguments of a decrypt and what it returned. *)
(***************************************************************************)
\* the salt of keys::tests::invalid_salt, which Argon2 refuses
ShortSalt == <<0, 0, 0>>

\* Argon2 fails on a salt that is too short and on nothing else here
salt_ok(salt) == salt # ShortSalt

\* decrypt of lib.rs
decrypt(version, password, salt, ciphertext, purpose, argon_ok) ==
    LET encryption_key == derive_key(version, password, salt, purpose, argon_ok)
    IN  IF ~encryption_key.ok THEN None
        ELSE cipher_decrypt(encryption_key.v, ciphertext)

Purposes == {"File", "Password"}

\* plaintexts: "", "x", "secret"
Plaintexts == {<< >>, <<120>>, <<115, 101, 99, 114, 101, 116>>}

CryptArgs(version, password, salt, purpose, text) ==
    [version |-> version, password |-> password, salt |-> salt, purpose |-> purpose,
     text |-> text]

CryptCall(op, enc, ciphertext, dec, r) ==
    [op |-> op, enc |-> enc, ciphertext |-> ciphertext, dec |-> dec, r |-> r]

InitCrypt ==
    /\ vault = NoVault
    /\ rng = 0
    /\ used = {}
    /\ cnt = 0
    /\ \E version \in Versions, password \in Passwords, n \in 1..2,
          purpose \in Purposes, plaintext \in Plaintexts :
          LET enc == CryptArgs(version, password, CsprngSalt(n), purpose, plaintext)
          IN  last = CryptCall("input", enc, << >>, enc, None)

\* encrypt(version, password, plaintext, purpose)
LibEncrypt ==
    /\ last.op = "input"
    /\ LET e == last.enc
           r == encrypt(e.version, e.password, e.text, e.purpose, e.salt, salt_ok(e.salt))
       IN  /\ r.ok
           /\ r.v.salt = e.salt
           /\ last' = CryptCall("encrypt", e, r.v.ciphertext, e, None)
    /\ UNCHANGED <<vault, rng, used, cnt>>

\* the ciphertexts handed to decrypt after an encryption of plaintext that
\* returned c: c, c with its first or last byte altered, c without its last
\* byte, c with a byte appended, and the plaintext itself
Ciphertexts(c, plaintext) ==
    { c, alter(c, 1, 1), alter(c, Len(c), 128), SubSeq(c, 1, Len(c) - 1), c \o <<0>>,
      plaintext }

\* decrypt(version, password, salt, ciphertext, purpose)
LibDecrypt(version, password, salt, ciphertext, purpose) ==
    /\ last.op = "encrypt"
    /\ last' = CryptCall("decrypt", last.enc, last.ciphertext,
                         CryptArgs(version, password, salt, purpose, ciphertext),
                         decrypt(version, password, salt, ciphertext, purpose, salt_ok(salt)))
    /\ UNCHANGED <<vault, rng, used, cnt>>

NextCrypt ==
    \/ LibEncrypt
    \/ \E version \in Versions, password \in Passwords,
          salt \in {CsprngSalt(1), CsprngSalt(2), [i \in 1..SaltLen |-> 0], ShortSalt},
          purpose \in Purposes,
          ciphertext \in Ciphertexts(last.ciphertext, last.enc.text) :
          LibDecrypt(version, password, salt, ciphertext, purpose)

SpecCrypt == InitCrypt /\ [][NextCrypt]_vars

(***************************************************************************)
(* hex::encode and hex::decode.  A string is the sequence of the code      *)
(* points of its chars.                                                    *)
(***************************************************************************)
\* byte_to_char on a half-byte
byte_to_char(b) == IF b <= 9 THEN 48 + b ELSE 97 + (b - 10)

\* encode: two chars per byte, high half first
encode(data) ==
    [k \in 1..(2 * Len(data)) |->
        IF k % 2 = 1 THEN byte_to_char(data[(k + 1) \div 2] \div 16)
        ELSE byte_to_char(data[k \div 2] % 16)]

\* char_to_byte: Ok(value) for '0'..'9' and 'a'..'f', Err for any other char
char_to_byte(c) ==
    IF c >= 48 /\ c <= 57 THEN Some(c - 48)
    ELSE IF c >= 97 /\ c <= 102 THEN Some(c - 87)
    ELSE None

\* the loop of decode from the i-th char on, with the locals carry, half, bytes
RECURSIVE decode_from(_, _, _, _, _)
decode_from(data, i, carry, half, bytes) ==
    IF i > Len(data) THEN Some(bytes)
    ELSE LET value == char_to_byte(data[i])
         IN  IF ~value.ok THEN None
             ELSE IF carry
                  THEN decode_from(data, i + 1, FALSE, (value.v * 16) % 256, bytes)
                  ELSE decode_from(data, i + 1, TRUE, 0, Append(bytes, (half + value.v) % 256))

\* decode
decode(data) == decode_from(data, 1, TRUE, 0, << >>)

\* chars: '0', '9', 'a', 'f', and 'g', 'A', ' ' which are no hexadecimal digits
HexChars == {48, 57, 97, 102, 103, 65, 32}

RECURSIVE StringsUpTo(_, _)
StringsUpTo(chars, n) ==
    IF n = 0 THEN { << >> }
    ELSE LET shorter == StringsUpTo(chars, n - 1)
         IN  shorter \cup { Append(t, c) : t \in shorter, c \in chars }

HexStrings == StringsUpTo(HexChars, MaxHexLen)

HexBytes == StringsUpTo({0, 15, 16, 171, 255}, 2)

HexCall(op, data, r) == [op |-> op, data |-> data, r |-> r]

InitHex ==
    /\ vault = NoVault
    /\ rng = 0
    /\ used = {}
    /\ cnt = 0
    /\ \/ \E t \in HexStrings : last = HexCall("string", t, None)
       \/ \E b \in HexBytes : last = HexCall("bytes", b, None)

\* hex::decode(data)
HexDecode ==
    /\ last.op = "string"
    /\ last' = HexCall("decode", last.data, decode(last.data))
    /\ UNCHANGED <<vault, rng, used, cnt>>

\* hex::encode(data)
HexEncode ==
    /\ last.op = "bytes"
    /\ last' = HexCall("encode", last.data, Some(encode(last.data)))
    /\ UNCHANGED <<vault, rng, used, cnt>>

\* hex::decode(hex::encode(data))
HexDecodeEncoded ==
    /\ last.op = "encode"
    /\ last' = HexCall("decode_encoded", last.data, decode(last.r.v))
    /\ UNCHANGED <<vault, rng, used, cnt>>

NextHex == HexDecode \/ HexEncode \/ HexDecodeEncoded

SpecHex == InitHex /\ [][NextHex]_vars

(***************************************************************************)
(* hmac256::authenticate at the level of the bytes it hashes: the inner    *)
(* and the outer hash input.  SHA-256 itself is a 32-byte digest of its    *)
(* input.                                                                  *)
(***************************************************************************)
\* x ^ y on bytes
RECURSIVE Xor(_, _)
Xor(x, y) ==
    IF x = 0 THEN y
    ELSE IF y = 0 THEN x
    ELSE ((x + y) % 2) + 2 * Xor(x \div 2, y \div 2)

\* sha256::hash(data)
sha256_hash(data) ==
    LET h == Digest(data, 1, <<Len(data) % 251, 3>>)
    IN  [j \in 1..DigestLen |-> (h[1] + (h[2] % 4093) * j) % 256]

\* inner_data: key ^ 0x36, then 0x36 up to the block length, then the message
inner_data(key, message) ==
    [i \in 1..Len(key) |-> Xor(key[i], 54)]
        \o [i \in 1..(BlockLen - Len(key)) |-> 54]
        \o message

\* outer_data: key ^ 0x5c, then 32 times 0x5c, then the inner hash
outer_data(key, inner_hash) ==
    [i \in 1..Len(key) |-> Xor(key[i], 92)]
        \o [i \in 1..32 |-> 92]
        \o inner_hash

\* authenticate(key, message) with the two hash inputs it built
authenticate_bytes(key, message) ==
    LET inner == inner_data(key, message)
        inner_hash == sha256_hash(inner)
        outer == outer_data(key, inner_hash)
    IN  [inner_data |-> inner, inner_hash |-> inner_hash, outer_data |-> outer,
         mac |-> sha256_hash(outer)]

\* keys of every length the assertion of authenticate lets through
HmacKeys ==
    { [i \in 1..n |-> (11 * i) % 256] : n \in 0..BlockLen }
        \cup { [i \in 1..n |-> 255] : n \in 0..BlockLen }

\* messages: "", and the purpose encodings derive_key authenticates
HmacMessages == { << >>, Purpose_encode("File"), Purpose_encode("Password") }

HmacCall(op, key, message, r) == [op |-> op, key |-> key, message |-> message, r |-> r]

InitHmac ==
    /\ vault = NoVault
    /\ rng = 0
    /\ used = {}
    /\ cnt = 0
    /\ \E key \in HmacKeys, message \in HmacMessages :
          last = HmacCall("input", key, message, << >>)

Authenticate ==
    /\ last.op = "input"
    /\ Len(last.key) <= BlockLen
    /\ last' = HmacCall("authenticate", last.key, last.message,
                        authenticate_bytes(last.key, last.message))
    /\ UNCHANGED <<vault, rng, used, cnt>>

NextHmac == Authenticate

SpecHmac == InitHmac /\ [][NextHmac]_vars

(***************************************************************************)
(* sha256: the padding and the parsing of the padded message into 64-byte  *)
(* blocks.  What the compression function does with the blocks is left     *)
(* out.  Message lengths stay below 2^28 bytes, so that the bit count      *)
(* 8 * len fits the usize and the i64 it is computed in.                   *)
(***************************************************************************)
\* a pad_len computed with the truncating remainder of the % operator
pad_len_rem(message_bits_count) ==
    LET x == 448 - message_bits_count - 1
        r == IF x >= 0 THEN x % 512 ELSE 0 - ((0 - x) % 512)
        q == r + 1
    IN  IF q >= 0 THEN q \div 8 ELSE 0 - ((0 - q) \div 8)

\* pad_len: ((448 - bits - 1).rem_euclid(512) + 1) / 8
pad_len(message_bits_count) == (((448 - message_bits_count - 1) % 512) + 1) \div 8

\* blocks_count
blocks_count(message_bytes_count, pad) == (message_bytes_count + pad + 8) \div 64

\* x >> s on a 64-bit value below 2^31
Shr(x, s) == IF s >= 31 THEN 0 ELSE x \div (2^s)

\* the byte the block parser reads at a 0-based index of the padded message
padded_byte(message, pad, index) ==
    LET message_bytes_count == Len(message)
        message_bits_count == 8 * message_bytes_count
    IN  IF index < message_bytes_count THEN message[index + 1]
        ELSE IF index = message_bytes_count THEN 128
        ELSE IF index < message_bytes_count + pad THEN 0
        ELSE Shr(message_bits_count,
                 64 - 8 * (index - message_bytes_count - pad + 1)) % 256

\* what sha256 computes before it compresses: pad_len, blocks_count and the
\* bytes of the blocks it parses
sha256_blocks(message) ==
    LET pad == pad_len(8 * Len(message))
        blocks == blocks_count(Len(message), pad)
    IN  [pad_len |-> pad, blocks_count |-> blocks,
         bytes |-> [k \in 1..(64 * blocks) |-> padded_byte(message, pad, k - 1)]]

\* message lengths: every length up to MaxMsgLen, and two around a bit count
\* of 2^16
MessageLens == (0..MaxMsgLen) \cup {8191, 8192}

\* the message of n bytes
Message(n) == [i \in 1..n |-> (7 * i + 1) % 256]

ShaCall(op, message, r) == [op |-> op, message |-> message, r |-> r]

InitSha ==
    /\ vault = NoVault
    /\ rng = 0
    /\ used = {}
    /\ cnt = 0
    /\ \E n \in MessageLens : last = ShaCall("message", Message(n), << >>)

Sha256 ==
    /\ last.op = "message"
    /\ last' = ShaCall("sha256", last.message, sha256_blocks(last.message))
    /\ UNCHANGED <<vault, rng, used, cnt>>

NextSha == Sha256

SpecSha == InitSha /\ [][NextSha]_vars

(***************************************************************************)
(* Properties.                                                             *)
(***************************************************************************)
\* the constraints on a vault: at most 65535 items, names and encrypted
\* values non-empty and at most 65535 bytes long
ItemFits(item) ==
    /\ Len(item.name) >= 1 /\ Len(item.name) <= U16Max
    /\ Len(item.encrypted_value) >= 1 /\ Len(item.encrypted_value) <= U16Max

VaultFits(v) ==
    /\ Len(v.items) <= U16Max
    /\ \A k \in 1..Len(v.items) : ItemFits(v.items[k])

\* C1: whenever serialize has returned a blob for a vault within the
\* constraints, deserialize of that blob under the same password succeeds and
\* returns a vault with the same version, the same salt and the same items
\* in the same order.
C1_RoundTrip ==
    (last.op = "serialize" /\ last.res = "Some" /\ VaultFits(vault)) =>
        LET r == deserialize(last.out, last.password, TRUE)
        IN  r.res = "Some" /\ r.vault = vault

\* C2: no two AEAD encryptions of different plaintexts are performed under
\* the same (version, password, salt, purpose) key.
C2_KeyUsedOnce ==
    \A a, b \in used :
        (a.version = b.version /\ a.password = b.password /\ a.salt = b.salt
            /\ a.purpose = b.purpose) => a.plaintext = b.plaintext

\* C3: for the blob b serialize has just returned under password pw,
\* deserialize returns None for every proper prefix of b (cut in the salt,
\* right after it, in the ciphertext or in the tag), for b with any tag byte
\* altered, for b with bytes appended and for b under another password.
TagDeltas == {1, 128, 255}

Appended == {<<0>>, <<42>>, <<0, 0>>}

C3_DamagedBlobRejected ==
    (last.op = "serialize" /\ last.res = "Some") =>
        LET b == last.out
            pw == last.password
        IN  /\ \A n \in 1..(Len(b) - 1) : deserialize(SubSeq(b, 1, n), pw, TRUE).res = "None"
            /\ \A k \in (Len(b) - TagLen + 1)..Len(b), delta \in TagDeltas :
                  deserialize(alter(b, k, delta), pw, TRUE).res = "None"
            /\ \A extra \in Appended : deserialize(b \o extra, pw, TRUE).res = "None"
            /\ \A p \in Passwords \ {pw} : deserialize(b, p, TRUE).res = "None"

\* deserialize has just returned None for a damaged copy of a blob
C3_Witness ==
    last.op = "deserialize" /\ last.bin = "damaged" /\ last.res = "None"
        /\ Len(vault.items) = 2

\* C4: when deserialize returns a vault, the items announced by the count
\* prefix have consumed the decrypted payload exactly.
C4_NoLeftover ==
    (last.op = "deserialize" /\ last.res = "Some") => last.pos = Len(last.out)

\* C5: no call of deserialize panics; every failure is the value None.
C5_NeverPanics == last.op = "deserialize" => last.res # "panic"

\* C6: add returns an error for an empty name, and every item a vault holds
\* has a non-empty name and an encrypted value, both within 65535 bytes.
C6_AddRejectsBadInput ==
    /\ (last.op = "add" /\ last.name = << >>) => last.res = "None"
    /\ \A k \in 1..Len(vault.items) : ItemFits(vault.items[k])

\* C7: the number of items is at most 65535, and the 16-bit count serialize
\* writes is the number of items.
C7_CountFits ==
    /\ cnt <= U16Max
    /\ U16Decode(U16Bytes(cnt)[1], U16Bytes(cnt)[2]) = cnt

\* C8: a step of add that fails leaves version, salt and items unchanged; one
\* that succeeds leaves version and salt unchanged and appends exactly one
\* item, carrying the given name, after the unchanged earlier items.
C8_AddAtomic ==
    [][last'.op = "add" =>
          IF last'.res = "None" THEN vault' = vault
          ELSE /\ vault'.version = vault.version
               /\ vault'.salt = vault.salt
               /\ Len(vault'.items) = Len(vault.items) + 1
               /\ SubSeq(vault'.items, 1, Len(vault.items)) = vault.items
               /\ vault'.items[Len(vault'.items)].name = last'.name]_vars

\* an add has succeeded on a vault that already held an item
C8_Witness == last.op = "add" /\ last.res = "Some" /\ Len(vault.items) = 2

\* the indices of the items of a list that do not carry the name
Kept(items, name) == {k \in 1..Len(items) : items[k].name # name}

\* C9: a step of remove(name) leaves version and salt unchanged and keeps
\* exactly the items with another name, unchanged and in their order; it
\* changes nothing when no item carries the name; afterwards get(name, pw) is
\* an error for every password.
C9_Remove ==
    [][last'.op = "remove" =>
          LET name == last'.name
              keep == Kept(vault.items, name)
          IN  /\ vault'.version = vault.version
              /\ vault'.salt = vault.salt
              /\ Len(vault'.items) = Cardinality(keep)
              /\ \A k \in keep :
                    vault'.items[Cardinality({j \in keep : j <= k})] = vault.items[k]
              /\ (keep = 1..Len(vault.items) => vault' = vault)
              /\ \A pw \in Passwords, argon_ok \in BOOLEAN :
                    ~get(vault', name, pw, argon_ok).ok]_vars

\* a remove has dropped an item and kept one with another name
C9_Witness ==
    last.op = "remove" /\ rng = 2 /\ Len(vault.items) = 1
        /\ vault.items[1].name # last.name /\ vault.items[1].salt = CsprngSalt(2)

\* the first item in insertion order that carries the name (0: none)
FirstMatch(items, name) ==
    IF \A k \in 1..Len(items) : items[k].name # name THEN 0
    ELSE CHOOSE k \in 1..Len(items) :
            items[k].name = name /\ \A j \in 1..Len(items) : items[j].name = name => k <= j

\* C10 on one vault: get(name, pw) is decided by the first item carrying the
\* name alone.  It is an error when there is none; it is the value when that
\* item is the one add built from (name, value, pw); it is an error when pw
\* does not decrypt that item or the plaintext is not UTF-8.
GetDecidedByFirst(v) ==
    \A name \in Names, pw \in Passwords :
        LET k == FirstMatch(v.items, name)
            r == get(v, name, pw, TRUE)
        IN  IF k = 0 THEN ~r.ok
            ELSE LET item == v.items[k]
                     plain == VaultItem_decrypt(item, pw, TRUE)
                 IN  /\ \A value \in Values :
                           item = VaultItem_encrypt(item.version, name, value, pw,
                                                    item.salt, TRUE).v
                               => (r.ok /\ r.v = value)
                     /\ ~plain.ok => ~r.ok
                     /\ (plain.ok /\ ~from_utf8_ok(plain.v, 1)) => ~r.ok
                     /\ r.ok => (plain.ok /\ r.v = plain.v)

\* C10: in every state get is decided by the first item carrying the name,
\* what a call of get returned is that result, and a step of get leaves the
\* vault unchanged.
C10_Get ==
    /\ [](GetDecidedByFirst(vault)
          /\ ((last.op = "get" /\ last.res = "Some") =>
                 \E argon_ok \in BOOLEAN :
                    get(vault, last.name, last.password, argon_ok) = Some(last.out)))
    /\ [][last'.op = "get" => vault' = vault]_vars

\* get has returned an error because the password does not decrypt the first
\* item of that name, although it decrypts a later one
C10_Witness ==
    /\ last.op = "get" /\ last.res = "None"
    /\ Len(vault.items) = 2
    /\ vault.items[1].name = last.name /\ vault.items[2].name = last.name
    /\ VaultItem_decrypt(vault.items[2], last.password, TRUE).ok

\* C11 (the calls): a step of add that succeeds appends the given name to
\* what list() returns, one that fails leaves it unchanged, and a step of
\* remove(name) drops the occurrences of name and keeps the other names in
\* their order, so list() is the names of the successful adds no later remove
\* of the same name has dropped, in the order of the adds.
C11_ListFollowsCalls ==
    [][/\ last'.op = "add" =>
             list(vault') = IF last'.res = "Some" THEN Append(list(vault), last'.name)
                            ELSE list(vault)
       /\ last'.op = "remove" =>
             list(vault') = SelectSeq(list(vault), LAMBDA n : n # last'.name)
       /\ last'.op = "list" => (last'.out = list(vault) /\ vault' = vault)]_vars

C12_SaltFixed ==
    /\ []((last.op = "create" /\ rng = 0) => vault.salt = InjectedSalt)
    /\ []((last.op = "serialize" /\ last.res = "Some") =>
             /\ Len(last.out) >= 1 + SaltLen
             /\ [i \in 1..SaltLen |-> last.out[1 + i]] = vault.salt
             /\ LET r == deserialize(last.out, last.password, TRUE)
                IN  r.res = "Some" => r.vault.salt = vault.salt)
    /\ [][/\ last'.op \in {"add", "remove", "get", "list", "serialize"} =>
                vault'.salt = vault.salt
          /\ (last.op = "serialize" /\ last'.op = "deserialize" /\ last'.bin = "blob"
                 /\ last'.res = "Some") => vault'.salt = vault.salt]_vars

\* a vault created with the injected salt has been given an item, serialized
\* and read back from its blob
C12_Witness ==
    /\ last.op = "deserialize" /\ last.bin = "blob" /\ last.res = "Some"
    /\ vault.salt = InjectedSalt /\ Len(vault.items) >= 1

\* the length of the encoding of an item with a name of nl bytes and an
\* encrypted value of cl bytes
EncodedLen(nl, cl) == 2 + nl + SaltLen + 2 + cl

\* C13: for every valid item i, VaultItem::serialize(i) is
\* [u16 big-endian name_len][name][32-byte salt][u16 big-endian ct_len]
\* [encrypted_value], and VaultItem::deserialize(version, serialize(i))
\* returns an item equal to i in all four fields.
C13_ItemCodecRoundTrip ==
    /\ (last.op = "serialize" /\ ItemFits(last.item)) =>
          LET i == last.item
              b == last.buf
              nl == Len(i.name)
              cl == Len(i.encrypted_value)
              r == VaultItem_deserialize(i.version, b)
          IN  /\ Len(b) = EncodedLen(nl, cl)
              /\ b[1] * 256 + b[2] = nl
              /\ \A k \in 1..nl : b[2 + k] = i.name[k]
              /\ \A k \in 1..SaltLen : b[2 + nl + k] = i.salt[k]
              /\ b[2 + nl + SaltLen + 1] * 256 + b[2 + nl + SaltLen + 2] = cl
              /\ \A k \in 1..cl : b[2 + nl + SaltLen + 2 + k] = i.encrypted_value[k]
              /\ \A k \in 1..Len(b) : b[k] \in Byte
              /\ r.ok /\ r.item = i
    /\ (last.op = "deserialize" /\ last.kind = "exact" /\ ItemFits(last.item)) =>
          (last.r.ok /\ last.r.item = last.item)

\* an item whose name needs both length bytes has been encoded and decoded
C13_Witness ==
    /\ last.op = "deserialize" /\ last.kind = "exact" /\ last.r.ok
    /\ Len(last.item.name) > 256

\* C14: for every item, size() is 2 + name_len + 32 + 2 + ct_len, the number
\* of bytes serialize_into writes for it.
C14_SizeIsEncodedLen ==
    last.op = "serialize" =>
        /\ last.size = EncodedLen(Len(last.item.name), Len(last.item.encrypted_value))
        /\ last.size = Len(last.buf)

\* C15: the item decoder returns None for an encoding with a zero name
\* length or a zero ciphertext length, with a name that is not UTF-8, and for
\* an input that ends before the five fields are read in full; when it
\* returns an item it has consumed exactly 2 + name_len + 32 + 2 + ct_len
\* bytes of the reader.
C15_ItemDecodeErrors ==
    last.op = "deserialize" =>
        /\ last.kind \in {"zero_name", "zero_value", "bad_utf8", "cut"} => ~last.r.ok
        /\ last.kind \in {"exact", "trailing"} => last.r.ok
        /\ last.r.ok =>
              /\ last.r.pos - last.start =
                    EncodedLen(Len(last.r.item.name), Len(last.r.item.encrypted_value))
              /\ last.r.pos <= Len(last.buf)
              /\ last.r.item.name # << >> /\ last.r.item.encrypted_value # << >>
              /\ from_utf8_ok(last.r.item.name, 1)

\* the decoder has refused an input that ends inside the encrypted value
C15_Witness ==
    /\ last.op = "deserialize" /\ last.kind = "cut" /\ ~last.r.ok
    /\ Len(last.buf) - last.start > 2 + Len(last.item.name) + SaltLen + 2

\* C16: decrypt returns the plaintext encrypt was given when version,
\* password, salt, purpose and ciphertext are those of the encryption; it
\* returns None when the purpose is the other one (File for Password and
\* back) with everything else equal, and when the version, the password, the
\* salt or the ciphertext differs.
C16_PurposeBoundKeys ==
    last.op = "decrypt" =>
        LET e == last.enc
            d == last.dec
            same == /\ d.version = e.version /\ d.password = e.password
                    /\ d.salt = e.salt /\ d.purpose = e.purpose
                    /\ d.text = last.ciphertext
        IN  /\ same => (last.r.ok /\ last.r.v = e.text)
            /\ ~same => ~last.r.ok

\* decrypt has refused a ciphertext presented under the other purpose, with
\* the version, password and salt it was encrypted under
C16_Witness ==
    /\ last.op = "decrypt" /\ ~last.r.ok
    /\ last.dec.purpose = "File" /\ last.enc.purpose = "Password"
    /\ last.dec.version = last.enc.version /\ last.dec.password = last.enc.password
    /\ last.dec.salt = last.enc.salt /\ last.dec.text = last.ciphertext
    /\ last.enc.text # << >>

\* the chars 0-9 and a-f
HexDigits == (48..57) \cup (97..102)

\* C17: hex::decode returns an error for every string of odd length and for
\* every string with a char outside 0-9a-f, and hex::decode(hex::encode(b))
\* is b for every byte sequence b.
C17_HexDecode ==
    /\ last.op = "decode" =>
          /\ Len(last.data) % 2 = 1 => ~last.r.ok
          /\ (\E k \in 1..Len(last.data) : last.data[k] \notin HexDigits) => ~last.r.ok
    /\ last.op = "decode_encoded" => (last.r.ok /\ last.r.v = last.data)

\* the sum of the encoded lengths of the items from the k-th on
RECURSIVE SumEncodedLen(_, _)
SumEncodedLen(items, k) ==
    IF k > Len(items) THEN 0
    ELSE EncodedLen(Len(items[k].name), Len(items[k].encrypted_value))
            + SumEncodedLen(items, k + 1)

\* C18 on the blob serialize returned for vault v under password pw: one
\* version byte (0 for Test, 1 for V1), the 32 bytes of the vault salt, and
\* nothing else but the AEAD envelope, whose plaintext under the file key is
\* the 16-bit item count followed by the items; the blob is
\* 1 + 32 + 2 + (the items' encoded lengths) + 16 bytes long, 51 for an
\* empty vault.
BlobLayout(v, pw, blob) ==
    LET n == SumEncodedLen(v.items, 1)
        envelope == SubSeq(blob, 1 + SaltLen + 1, Len(blob))
        file_key == derive_key(v.version, pw, v.salt, "File", TRUE)
        opened == cipher_decrypt(file_key.v, envelope)
    IN  /\ Len(blob) = 1 + SaltLen + 2 + n + TagLen
        /\ (v.items = << >> => Len(blob) = 51)
        /\ blob[1] = (IF v.version = "Test" THEN 0 ELSE 1)
        /\ SubSeq(blob, 2, 1 + SaltLen) = v.salt
        /\ opened.ok
        /\ Len(opened.v) = 2 + n
        /\ opened.v[1] * 256 + opened.v[2] = Len(v.items) % (U16Max + 1)
        /\ SubSeq(opened.v, 3, Len(opened.v)) = write_items(v.items, 1)

\* C18: every blob serialize returns has that layout; a step of serialize
\* and a step of deserialize that fails leave the vault unchanged.
C18_BlobLayout ==
    /\ []((last.op = "serialize" /\ last.res = "Some") =>
             BlobLayout(vault, last.password, last.out))
    /\ [][/\ last'.op = "serialize" => vault' = vault
          /\ (last'.op = "deserialize" /\ last'.res # "Some") => vault' = vault]_vars

\* serialize has returned the blob of a vault of two items
C18_Witness ==
    /\ last.op = "serialize" /\ last.res = "Some"
    /\ Len(vault.items) = 2
    /\ Len(last.out) > 51

\* the key followed by zero bytes up to the block length
K0(key) == key \o [i \in 1..(BlockLen - Len(key)) |-> 0]

\* C19: for every key of 0 to 64 bytes, the inner hash input of
\* authenticate is (K0 xor 0x36) || message and the outer hash input is
\* (K0 xor 0x5c) || inner_digest, 96 bytes long, where K0 is the key padded
\* with zeroes to 64 bytes.
C19_KeyBlockPadded ==
    last.op = "authenticate" =>
        LET k0 == K0(last.key) IN
        /\ last.r.inner_data = [i \in 1..BlockLen |-> Xor(k0[i], 54)] \o last.message
        /\ last.r.outer_data = [i \in 1..BlockLen |-> Xor(k0[i], 92)] \o last.r.inner_hash
        /\ Len(last.r.outer_data) = 96

\* C20: for a message of n bytes the pad length p is in 1..64 with n + p
\* congruent to 56 modulo 64; n + p + 8 is a multiple of 64 and the number of
\* blocks is (n + p + 8) / 64; the padded message is the message, the byte
\* 0x80 at index n, zero bytes at n+1 .. n+p-1, and the 64-bit big-endian
\* value 8 * n in the last 8 bytes.
C20_Padding ==
    last.op = "sha256" =>
        LET n == Len(last.message)
            p == last.r.pad_len
            b == last.r.bytes
        IN  /\ p >= 1 /\ p <= 64
            /\ (n + p) % 64 = 56
            /\ (n + p + 8) % 64 = 0
            /\ last.r.blocks_count * 64 = n + p + 8
            /\ Len(b) = n + p + 8
            /\ \A k \in 1..n : b[k] = last.message[k]
            /\ b[n + 1] = 128
            /\ \A k \in (n + 2)..(n + p) : b[k] = 0
            /\ \A k \in 1..4 : b[n + p + k] = 0
            /\ b[n + p + 5] * 16777216 + b[n + p + 6] * 65536 + b[n + p + 7] * 256
                  + b[n + p + 8] = 8 * n

\* a message of 56 bytes, whose padding takes a block of its own, was padded
C20_Witness ==
    /\ last.op = "sha256" /\ Len(last.message) = 56
    /\ last.r.pad_len = 64 /\ last.r.blocks_count = 2

\* every item of v carries the version of v
VersionsAgree(v) == \A k \in 1..Len(v.items) : v.items[k].version = v.version

\* C21: in every vault reached through create, add, remove and deserialize,
\* every item carries the vault's version, so an item add encrypted under the
\* vault's Argon2 parameters is decrypted by get under the same parameters;
\* the vault deserialize returns for a blob of the vault has the same version,
\* its items carry it too, and each of them decrypts as it did before.
C21_ItemVersionIsVaultVersion ==
    /\ VersionsAgree(vault)
    /\ \A k \in 1..Len(vault.items), value \in Values, pw \in Passwords :
          LET item == vault.items[k]
              built == VaultItem_encrypt(vault.version, item.name, value, pw, item.salt, TRUE)
          IN  item.encrypted_value = built.v.encrypted_value
                 => VaultItem_decrypt(item, pw, TRUE) = Some(value)
    /\ (last.op = "serialize" /\ last.res = "Some") =>
          LET r == deserialize(last.out, last.password, TRUE)
          IN  r.res = "Some" =>
                 /\ r.vault.version = vault.version
                 /\ VersionsAgree(r.vault)
                 /\ Len(r.vault.items) = Len(vault.items)
                 /\ \A k \in 1..Len(vault.items), pw \in Passwords :
                       VaultItem_decrypt(r.vault.items[k], pw, TRUE)
                          = VaultItem_decrypt(vault.items[k], pw, TRUE)

\* a vault read from a Test blob has been given an item by add, serialized
\* and read back, and the added item still decrypts
C21_Witness ==
    /\ last.op = "deserialize" /\ last.bin = "blob" /\ last.res = "Some"
    /\ vault.version = "Test" /\ Len(vault.items) = 2
    /\ vault.items[2].salt # InjectedSalt
    /\ \E pw \in Passwords : VaultItem_decrypt(vault.items[2], pw, TRUE).ok

====
